---- MODULE Spec2Model ----
(***************************************************************************)
(* Model of can/broadcastmanager.py: the cyclic send task hierarchy and    *)
(* the thread based task ThreadBasedCyclicSendTask.                        *)
(*                                                                         *)
(* One caller thread constructs tasks and calls stop(), start() and        *)
(* modify_data() on them; every call is one action.  Each task owns at     *)
(* most one execution unit (thread) at a time that runs _run(); _run() is  *)
(* cut at the points where another thread can observe or influence it:     *)
(* the loop test, the lock acquisition with the call of bus.send, the      *)
(* return of bus.send, the end_time test, the sleep and the end of the     *)
(* thread.                                                                 *)
(*                                                                         *)
(* The code uses time.time() only in differences of time stamps, so the    *)
(* model keeps every time stamp relative to the current time: end_time is  *)
(* the time left until self.end_time, started the time passed since the    *)
(* local started was set, delay the time left of time.sleep().  Tick lets  *)
(* one unit of time pass.                                                  *)
(***************************************************************************)
EXTENDS Integers, Sequences, FiniteSets

\* ------------------------------------------------------------------ bounds
MaxLen == 2          \* longest message sequence handed to a task
MaxTime == 2         \* time passed is counted up to MaxTime (>= Period)
NumShared == 2       \* tasks sharing one lock and one bus in SpecShared

\* ------------------------------------------------------- program constants
Period == 1          \* the period argument of the constructor
Duration == 2        \* the duration argument of the constructor, when given
None == -1           \* Python's None for end_time and duration

Ids == {1, 2}
Channels == {0, 1}
Datas == {0, 1}

\* can.Message, reduced to the fields the module reads, and its payload
Message == [arbitration_id : Ids, channel : Channels, data : Datas]

Msg(a, c, d) == [arbitration_id |-> a, channel |-> c, data |-> d]

NoMsg == Msg(0, 0, 0)

\* the sequences of length 0..MaxLen over a set of Messages
SeqsOver(M) == UNION {[1..n -> M] : n \in 0..MaxLen}

\* what a caller can pass as the messages argument: a Message, a list or a
\* tuple of Message, or an object of another type
RawInputs ==
    {[kind |-> "Message", items |-> <<m>>] : m \in Message}
    \cup {[kind |-> k, items |-> s] :
            k \in {"list", "tuple"}, s \in SeqsOver(Message)}
    \cup {[kind |-> "other", items |-> <<>>]}

VARIABLES
    messages,        \* self.messages, a tuple of Message
    arbitration_id,  \* self.arbitration_id
    duration,        \* self.duration
    end_time,        \* self.end_time - time.time(), at least 0, or None
    stopped,         \* self.stopped
    pc,              \* position of the task's thread in _run
    threads,         \* number of live threads that run _run for the task
    msg_index,       \* local msg_index of _run
    started,         \* time.time() - started for the local of _run,
                     \* at most MaxTime (0 when it is not read again)
    delay,           \* time left of time.sleep() (0: it may return)
    inFlight,        \* argument of the bus.send call in progress
    send_lock,       \* holder of the shared lock (0: free)
    raised,          \* exception raised by the caller's latest call
    pool,            \* the arguments the caller chooses from (never changes)
    given,           \* history: sequence of the latest successful call
    origChannel,     \* history: channel of the messages given at construction
    stale,           \* history: modify_data succeeded during the send
    lateIter,        \* history: the iteration began after end_time
    lastPos,         \* history: position of the task's latest send
    fresh,           \* history: the thread has not sent yet
    failed,          \* history: a send of the thread has raised
    waited           \* history: time passed while the thread waited for the
                     \* lock that another task held, until its send ends

vars == <<messages, arbitration_id, duration, end_time, stopped, pc,
          msg_index, started, delay, inFlight, send_lock, raised, pool,
          given, origChannel, stale, lateIter, lastPos, fresh, failed,
          threads, waited>>

taskVars == <<messages, arbitration_id, duration, end_time, stopped>>
runVars == <<pc, msg_index, started, delay, inFlight, send_lock>>
histVars == <<given, origChannel, stale, lateIter, lastPos, fresh, failed,
              threads, waited>>

Tasks == DOMAIN pc

Constructed(t) == pc[t] # "unconstructed"

\* threading.Thread.is_alive() of self.thread
is_alive(t) == pc[t] \notin {"unconstructed", "dead"}

Max(a, b) == IF a >= b THEN a ELSE b

Min(a, b) == IF a <= b THEN a ELSE b

\* time.time() >= self.end_time, for an end_time that is not None
Expired(t) == end_time[t] # None /\ end_time[t] = 0

\* no exception, and ValueError with the rule its message names
NoError == <<"None", "">>

ValueError(rule) == <<"ValueError", rule>>

\* ----------------------------------------------- _check_and_convert_messages
all_same_id(s) ==
    \A i \in 1..Len(s) : s[i].arbitration_id = s[1].arbitration_id

\* the channel test with each message compared to itself
all_same_channel_self(s) ==
    \A i \in 1..Len(s) : s[i].channel = s[i].channel

all_same_channel(s) ==
    \A i \in 1..Len(s) : s[i].channel = s[1].channel

\* the result: the exception raised (or NoError) and the tuple returned
_check_and_convert_messages(raw) ==
    IF raw.kind \notin {"list", "tuple", "Message"}
    THEN [exc |-> ValueError("type"), value |-> <<>>]
    ELSE IF raw.items = <<>>
    THEN [exc |-> ValueError("empty"), value |-> <<>>]
    ELSE IF ~all_same_id(raw.items)
    THEN [exc |-> ValueError("id"), value |-> <<>>]
    ELSE IF ~all_same_channel(raw.items)
    THEN [exc |-> ValueError("channel"), value |-> <<>>]
    ELSE [exc |-> NoError, value |-> raw.items]

\* the arguments the caller passes are drawn from the pool of the
\* specification: pool.args for messages, pool.durs for duration
Args == pool.args

Durs == pool.durs

\* --------------------------------------------------------- the caller's calls
\* start() when no thread is alive: a new thread enters _run (msg_index = 0)
Spawn(t) ==
    /\ pc' = [pc EXCEPT ![t] = "while"]
    /\ msg_index' = [msg_index EXCEPT ![t] = 0]
    /\ fresh' = [fresh EXCEPT ![t] = TRUE]
    /\ failed' = [failed EXCEPT ![t] = FALSE]
    /\ threads' = [threads EXCEPT ![t] = threads[t] + 1]

\* ThreadBasedCyclicSendTask(bus, lock, messages, period, duration)
Construct(t, raw, dur) ==
    /\ ~Constructed(t)
    /\ LET r == _check_and_convert_messages(raw) IN
        IF r.exc # NoError
        THEN /\ raised' = r.exc
             /\ UNCHANGED <<taskVars, runVars, histVars>>
        ELSE /\ raised' = NoError
             /\ messages' = [messages EXCEPT ![t] = r.value]
             /\ arbitration_id' = [arbitration_id EXCEPT
                     ![t] = r.value[1].arbitration_id]
             /\ duration' = [duration EXCEPT ![t] = dur]
             /\ end_time' = [end_time EXCEPT
                     ![t] = IF dur # None THEN dur ELSE None]
             /\ stopped' = [stopped EXCEPT ![t] = FALSE]
             /\ Spawn(t)
             /\ given' = [given EXCEPT ![t] = r.value]
             /\ origChannel' = [origChannel EXCEPT ![t] = r.value[1].channel]
             /\ UNCHANGED <<started, delay, inFlight, send_lock,
                            stale, lateIter, lastPos, waited>>
    /\ UNCHANGED pool

\* stop() that sets the flag to the opposite of what it was
Stop_toggle(t) ==
    /\ Constructed(t)
    /\ stopped' = [stopped EXCEPT ![t] = ~stopped[t]]
    /\ raised' = NoError
    /\ UNCHANGED <<messages, arbitration_id, duration, end_time,
                   runVars, histVars, pool>>

\* start() that clears the flag and never spawns a thread
Start_never_spawns(t) ==
    /\ Constructed(t)
    /\ stopped' = [stopped EXCEPT ![t] = FALSE]
    /\ raised' = NoError
    /\ UNCHANGED <<messages, arbitration_id, duration, end_time,
                   runVars, histVars, pool>>

\* start() that spawns a thread without asking whether one is alive
Start_always_spawns(t) ==
    /\ Constructed(t)
    /\ stopped' = [stopped EXCEPT ![t] = FALSE]
    /\ Spawn(t)
    /\ raised' = NoError
    /\ UNCHANGED <<messages, arbitration_id, duration, end_time,
                   started, delay, inFlight, send_lock,
                   given, origChannel, stale, lateIter, lastPos, waited,
                   pool>>

\* stop()
Stop(t) ==
    /\ Constructed(t)
    /\ stopped' = [stopped EXCEPT ![t] = TRUE]
    /\ raised' = NoError
    /\ UNCHANGED <<messages, arbitration_id, duration, end_time,
                   runVars, histVars, pool>>

\* start()
Start(t) ==
    /\ Constructed(t)
    /\ stopped' = [stopped EXCEPT ![t] = FALSE]
    /\ IF ~is_alive(t)
       THEN Spawn(t)
       ELSE UNCHANGED <<pc, msg_index, fresh, failed, threads>>
    /\ raised' = NoError
    /\ UNCHANGED <<messages, arbitration_id, duration, end_time,
                   started, delay, inFlight, send_lock,
                   given, origChannel, stale, lateIter, lastPos, waited,
                   pool>>

\* modify_data that validates the new tuple and does not store it
ModifyData_not_stored(t, raw) ==
    /\ Constructed(t)
    /\ LET r == _check_and_convert_messages(raw) IN
        IF r.exc # NoError
        THEN /\ raised' = r.exc
             /\ UNCHANGED <<given, stale>>
        ELSE IF Len(messages[t]) # Len(r.value)
        THEN /\ raised' = ValueError("number")
             /\ UNCHANGED <<given, stale>>
        ELSE /\ raised' = NoError
             /\ given' = [given EXCEPT ![t] = r.value]
             /\ stale' = [stale EXCEPT ![t] = (pc[t] = "send")]
    /\ UNCHANGED <<messages, arbitration_id, duration, end_time, stopped,
                   runVars, origChannel, lateIter, lastPos, fresh, failed,
                   threads, waited,
                   pool>>

\* modify_data that stores the new tuple before it tests the length
ModifyData_store_first(t, raw) ==
    /\ Constructed(t)
    /\ LET r == _check_and_convert_messages(raw) IN
        IF r.exc # NoError
        THEN /\ raised' = r.exc
             /\ UNCHANGED <<messages, given, stale>>
        ELSE /\ messages' = [messages EXCEPT ![t] = r.value]
             /\ given' = [given EXCEPT ![t] = r.value]
             /\ stale' = [stale EXCEPT ![t] = (pc[t] = "send")]
             /\ raised' = IF Len(messages[t]) # Len(r.value)
                          THEN ValueError("number") ELSE NoError
    /\ UNCHANGED <<arbitration_id, duration, end_time, stopped, runVars,
                   origChannel, lateIter, lastPos, fresh, failed,
                   threads, waited, pool>>

\* modify_data that also sets self.arbitration_id from the new messages
ModifyData_sets_id(t, raw) ==
    /\ Constructed(t)
    /\ LET r == _check_and_convert_messages(raw) IN
        IF r.exc # NoError
        THEN /\ raised' = r.exc
             /\ UNCHANGED <<messages, arbitration_id, given, stale>>
        ELSE IF Len(messages[t]) # Len(r.value)
        THEN /\ raised' = ValueError("number")
             /\ UNCHANGED <<messages, arbitration_id, given, stale>>
        ELSE /\ raised' = NoError
             /\ messages' = [messages EXCEPT ![t] = r.value]
             /\ arbitration_id' = [arbitration_id EXCEPT
                     ![t] = r.value[1].arbitration_id]
             /\ given' = [given EXCEPT ![t] = r.value]
             /\ stale' = [stale EXCEPT ![t] = (pc[t] = "send")]
    /\ UNCHANGED <<duration, end_time, stopped, runVars,
                   origChannel, lateIter, lastPos, fresh, failed,
                   threads, waited, pool>>

\* modify_data without the test of the length
ModifyData_any_length(t, raw) ==
    /\ Constructed(t)
    /\ LET r == _check_and_convert_messages(raw) IN
        IF r.exc # NoError
        THEN /\ raised' = r.exc
             /\ UNCHANGED <<messages, given, stale>>
        ELSE /\ raised' = NoError
             /\ messages' = [messages EXCEPT ![t] = r.value]
             /\ given' = [given EXCEPT ![t] = r.value]
             /\ stale' = [stale EXCEPT ![t] = (pc[t] = "send")]
    /\ UNCHANGED <<arbitration_id, duration, end_time, stopped, runVars,
                   origChannel, lateIter, lastPos, fresh, failed,
                   threads, waited, pool>>

\* modify_data(messages)
ModifyData(t, raw) ==
    /\ Constructed(t)
    /\ LET r == _check_and_convert_messages(raw) IN
        IF r.exc # NoError
        THEN /\ raised' = r.exc
             /\ UNCHANGED <<messages, given, stale>>
        ELSE IF Len(messages[t]) # Len(r.value)
        THEN /\ raised' = ValueError("number")
             /\ UNCHANGED <<messages, given, stale>>
        ELSE /\ raised' = NoError
             /\ messages' = [messages EXCEPT ![t] = r.value]
             /\ given' = [given EXCEPT ![t] = r.value]
             /\ stale' = [stale EXCEPT ![t] = (pc[t] = "send")]
    /\ UNCHANGED <<arbitration_id, duration, end_time, stopped, runVars,
                   origChannel, lateIter, lastPos, fresh, failed,
                   threads, waited, pool>>

\* ------------------------------------------------------------------- _run
\* the loop test that does not read self.stopped
RunWhile_ignores_stopped(t) ==
    /\ pc[t] = "while"
    /\ pc' = [pc EXCEPT ![t] = "lock"]
    /\ lateIter' = [lateIter EXCEPT ![t] = Expired(t)]
    /\ UNCHANGED <<taskVars, msg_index, started, delay, inFlight, send_lock,
                   given, origChannel, stale, lastPos, fresh, failed,
                   threads, waited, raised, pool>>

\* while not self.stopped
RunWhile(t) ==
    /\ pc[t] = "while"
    /\ IF stopped[t]
       THEN /\ pc' = [pc EXCEPT ![t] = "exit"]
            /\ UNCHANGED lateIter
       ELSE /\ pc' = [pc EXCEPT ![t] = "lock"]
            /\ lateIter' = [lateIter EXCEPT
                   ![t] = Expired(t)]
    /\ UNCHANGED <<taskVars, msg_index, started, delay, inFlight, send_lock,
                   given, origChannel, stale, lastPos, fresh, failed,
                   threads, waited, raised, pool>>

\* the send without waiting for the lock to be free
RunAcquire_no_wait(t) ==
    /\ pc[t] = "lock"
    /\ send_lock' = t
    /\ started' = [started EXCEPT ![t] = 0]
    /\ inFlight' = [inFlight EXCEPT ![t] = messages[t][msg_index[t] + 1]]
    /\ pc' = [pc EXCEPT ![t] = "send"]
    /\ stale' = [stale EXCEPT ![t] = FALSE]
    /\ lastPos' = [lastPos EXCEPT ![t] = msg_index[t]]
    /\ fresh' = [fresh EXCEPT ![t] = FALSE]
    /\ UNCHANGED <<taskVars, msg_index, delay, given, origChannel, lateIter,
                   failed, threads, waited, raised, pool>>

\* the send with the time stamp taken before the wait for the lock
RunAcquire_stamp_before_lock(t) ==
    /\ pc[t] = "lock"
    /\ send_lock = 0
    /\ send_lock' = t
    /\ started' = [started EXCEPT ![t] = IF waited[t] THEN 1 ELSE 0]
    /\ inFlight' = [inFlight EXCEPT ![t] = messages[t][msg_index[t] + 1]]
    /\ pc' = [pc EXCEPT ![t] = "send"]
    /\ stale' = [stale EXCEPT ![t] = FALSE]
    /\ lastPos' = [lastPos EXCEPT ![t] = msg_index[t]]
    /\ fresh' = [fresh EXCEPT ![t] = FALSE]
    /\ UNCHANGED <<taskVars, msg_index, delay, given, origChannel, lateIter,
                   failed, threads, waited, raised, pool>>

\* with self.send_lock: started = time.time();
\* self.bus.send(self.messages[msg_index]) is called
RunAcquire(t) ==
    /\ pc[t] = "lock"
    /\ send_lock = 0
    /\ send_lock' = t
    /\ started' = [started EXCEPT ![t] = 0]
    /\ inFlight' = [inFlight EXCEPT ![t] = messages[t][msg_index[t] + 1]]
    /\ pc' = [pc EXCEPT ![t] = "send"]
    /\ stale' = [stale EXCEPT ![t] = FALSE]
    /\ lastPos' = [lastPos EXCEPT ![t] = msg_index[t]]
    /\ fresh' = [fresh EXCEPT ![t] = FALSE]
    /\ UNCHANGED <<taskVars, msg_index, delay, given, origChannel, lateIter,
                   failed, threads, waited, raised, pool>>

\* bus.send returns; the with block releases the lock
SendReturns(t) ==
    /\ pc[t] = "send"
    /\ pc' = [pc EXCEPT ![t] = "endcheck"]
    /\ send_lock' = 0
    /\ inFlight' = [inFlight EXCEPT ![t] = NoMsg]
    /\ stale' = [stale EXCEPT ![t] = FALSE]
    /\ lateIter' = [lateIter EXCEPT ![t] = FALSE]
    /\ waited' = [waited EXCEPT ![t] = FALSE]
    /\ UNCHANGED <<taskVars, msg_index, started, delay,
                   given, origChannel, lastPos, fresh, failed,
                   threads, raised, pool>>

\* bus.send raises and the loop goes on to its next iteration
SendRaises_continue(t) ==
    /\ pc[t] = "send"
    /\ pc' = [pc EXCEPT ![t] = "while"]
    /\ send_lock' = 0
    /\ inFlight' = [inFlight EXCEPT ![t] = NoMsg]
    /\ stale' = [stale EXCEPT ![t] = FALSE]
    /\ lateIter' = [lateIter EXCEPT ![t] = FALSE]
    /\ waited' = [waited EXCEPT ![t] = FALSE]
    /\ failed' = [failed EXCEPT ![t] = TRUE]
    /\ UNCHANGED <<taskVars, msg_index, started, delay,
                   given, origChannel, lastPos, fresh,
                   threads, raised, pool>>

\* bus.send raises and the thread leaves the loop with the lock held
SendRaises_keeps_lock(t) ==
    /\ pc[t] = "send"
    /\ pc' = [pc EXCEPT ![t] = "exit"]
    /\ inFlight' = [inFlight EXCEPT ![t] = NoMsg]
    /\ stale' = [stale EXCEPT ![t] = FALSE]
    /\ lateIter' = [lateIter EXCEPT ![t] = FALSE]
    /\ waited' = [waited EXCEPT ![t] = FALSE]
    /\ failed' = [failed EXCEPT ![t] = TRUE]
    /\ UNCHANGED <<taskVars, msg_index, started, delay, send_lock,
                   given, origChannel, lastPos, fresh,
                   threads, raised, pool>>

\* bus.send raises: log.exception(exc); break (the with block releases)
SendRaises(t) ==
    /\ pc[t] = "send"
    /\ pc' = [pc EXCEPT ![t] = "exit"]
    /\ send_lock' = 0
    /\ inFlight' = [inFlight EXCEPT ![t] = NoMsg]
    /\ stale' = [stale EXCEPT ![t] = FALSE]
    /\ lateIter' = [lateIter EXCEPT ![t] = FALSE]
    /\ waited' = [waited EXCEPT ![t] = FALSE]
    /\ failed' = [failed EXCEPT ![t] = TRUE]
    /\ UNCHANGED <<taskVars, msg_index, started, delay,
                   given, origChannel, lastPos, fresh,
                   threads, raised, pool>>

\* if self.end_time is not None and time.time() >= self.end_time: break
RunEndCheck(t) ==
    /\ pc[t] = "endcheck"
    /\ IF end_time[t] # None /\ Expired(t)
       THEN pc' = [pc EXCEPT ![t] = "exit"]
       ELSE pc' = [pc EXCEPT ![t] = "advance"]
    /\ UNCHANGED <<taskVars, msg_index, started, delay, inFlight, send_lock,
                   histVars, raised, pool>>

\* the sleep without the step to the next message
RunAdvance_same_index(t) ==
    /\ pc[t] = "advance"
    /\ LET d == Period - started[t] IN
        delay' = [delay EXCEPT ![t] = Max(0, d)]
    /\ started' = [started EXCEPT ![t] = 0]
    /\ pc' = [pc EXCEPT ![t] = "sleep"]
    /\ UNCHANGED <<taskVars, msg_index, inFlight, send_lock, histVars,
                   raised, pool>>

\* the sleep of period - elapsed, also when that is negative
RunAdvance_no_clamp(t) ==
    /\ pc[t] = "advance"
    /\ msg_index' = [msg_index EXCEPT
                        ![t] = (msg_index[t] + 1) % Len(messages[t])]
    /\ delay' = [delay EXCEPT ![t] = Period - started[t]]
    /\ started' = [started EXCEPT ![t] = 0]
    /\ pc' = [pc EXCEPT ![t] = "sleep"]
    /\ UNCHANGED <<taskVars, inFlight, send_lock, histVars, raised, pool>>

\* msg_index = (msg_index + 1) % len(self.messages)
\* delay = self.period - (time.time() - started); time.sleep(max(0.0, delay))
RunAdvance(t) ==
    /\ pc[t] = "advance"
    /\ msg_index' = [msg_index EXCEPT
                        ![t] = (msg_index[t] + 1) % Len(messages[t])]
    /\ LET d == Period - started[t] IN
        delay' = [delay EXCEPT ![t] = Max(0, d)]
    /\ started' = [started EXCEPT ![t] = 0]
    /\ pc' = [pc EXCEPT ![t] = "sleep"]
    /\ UNCHANGED <<taskVars, inFlight, send_lock, histVars, raised, pool>>

\* time.sleep returns, not before the delay has passed
RunWake(t) ==
    /\ pc[t] = "sleep"
    /\ delay[t] = 0
    /\ pc' = [pc EXCEPT ![t] = "while"]
    /\ UNCHANGED <<taskVars, msg_index, started, delay, inFlight, send_lock,
                   histVars, raised, pool>>

\* _run returns: the thread is no longer alive and its locals are gone
RunExit(t) ==
    /\ pc[t] = "exit"
    /\ pc' = [pc EXCEPT ![t] = "dead"]
    /\ msg_index' = [msg_index EXCEPT ![t] = 0]
    /\ started' = [started EXCEPT ![t] = 0]
    /\ threads' = [threads EXCEPT ![t] = threads[t] - 1]
    /\ UNCHANGED <<taskVars, delay, inFlight, send_lock, given, origChannel,
                   stale, lateIter, lastPos, fresh, failed, waited, raised,
                   pool>>

\* --------------------------------------------------------------- the clock
\* started is read by the iteration that set it until it computes the delay
StartedLive(t) == pc[t] \in {"send", "endcheck", "advance"}

\* time.time() grows by one unit
Tick ==
    /\ end_time' = [t \in Tasks |->
            IF end_time[t] # None THEN Max(0, end_time[t] - 1) ELSE None]
    /\ started' = [t \in Tasks |->
            IF StartedLive(t) THEN Min(started[t] + 1, MaxTime) ELSE started[t]]
    /\ delay' = [t \in Tasks |-> Max(0, delay[t] - 1)]
    /\ waited' = [t \in Tasks |->
            waited[t] \/ (pc[t] = "lock" /\ send_lock # 0)]
    /\ UNCHANGED <<messages, arbitration_id, duration, stopped, pc,
                   msg_index, inFlight, send_lock, raised, pool, given,
                   origChannel, stale, lateIter, lastPos, fresh, failed,
                   threads>>

\* ------------------------------------------------------- the specifications
InitTasks(T, P) ==
    /\ messages = [t \in T |-> <<>>]
    /\ arbitration_id = [t \in T |-> 0]
    /\ duration = [t \in T |-> None]
    /\ end_time = [t \in T |-> None]
    /\ stopped = [t \in T |-> TRUE]
    /\ pc = [t \in T |-> "unconstructed"]
    /\ msg_index = [t \in T |-> 0]
    /\ started = [t \in T |-> 0]
    /\ delay = [t \in T |-> 0]
    /\ inFlight = [t \in T |-> NoMsg]
    /\ send_lock = 0
    /\ raised = NoError
    /\ pool = P
    /\ given = [t \in T |-> <<>>]
    /\ origChannel = [t \in T |-> 0]
    /\ stale = [t \in T |-> FALSE]
    /\ lateIter = [t \in T |-> FALSE]
    /\ lastPos = [t \in T |-> -1]
    /\ fresh = [t \in T |-> TRUE]
    /\ failed = [t \in T |-> FALSE]
    /\ threads = [t \in T |-> 0]
    /\ waited = [t \in T |-> FALSE]

Next ==
    \/ \E t \in Tasks, raw \in Args, dur \in Durs : Construct(t, raw, dur)
    \/ \E t \in Tasks : Stop(t)
    \/ \E t \in Tasks : Start(t)
    \/ \E t \in Tasks, raw \in Args : ModifyData(t, raw)
    \/ \E t \in Tasks : RunWhile(t)
    \/ \E t \in Tasks : RunAcquire(t)
    \/ \E t \in Tasks : SendReturns(t)
    \/ \E t \in Tasks : SendRaises(t)
    \/ \E t \in Tasks : RunEndCheck(t)
    \/ \E t \in Tasks : RunAdvance(t)
    \/ \E t \in Tasks : RunWake(t)
    \/ \E t \in Tasks : RunExit(t)
    \/ Tick

\* Spec: one task.  Its arguments are the non-empty lists over two
\* Messages that differ in the data, the lists that repeat a Message of
\* another arbitration id, a list that mixes two arbitration ids, and a
\* single Message.
MainMsgs == {Msg(1, 0, 0), Msg(1, 0, 1)}

OtherId == Msg(2, 0, 0)

MainArgs ==
    {[kind |-> "list", items |-> s] : s \in SeqsOver(MainMsgs) \ {<<>>}}
    \cup {[kind |-> "list", items |-> [i \in 1..n |-> OtherId]] :
            n \in 1..MaxLen}
    \cup {[kind |-> "list", items |-> <<Msg(1, 0, 0), OtherId>>],
          [kind |-> "Message", items |-> <<Msg(1, 0, 1)>>]}

Init == InitTasks({1}, [args |-> MainArgs, durs |-> {None, Duration}])

Spec == Init /\ [][Next]_vars

\* SpecShared: NumShared tasks on one lock and one bus, without duration;
\* the argument is always the same list of one Message
SharedArgs == {[kind |-> "list", items |-> <<Msg(1, 0, 0)>>]}

InitShared == InitTasks(1..NumShared, [args |-> SharedArgs, durs |-> {None}])

SpecShared == InitShared /\ [][Next]_vars

\* SpecConstruct: the constructor on one argument, which Init draws from
\* all of RawInputs, followed by stop()
NextConstruct ==
    \/ \E t \in Tasks, raw \in Args, dur \in Durs : Construct(t, raw, dur)
    \/ \E t \in Tasks : Stop(t)
    \/ Tick

InitConstruct ==
    \E raw \in RawInputs :
        InitTasks({1}, [args |-> {raw}, durs |-> {None, Duration}])

SpecConstruct == InitConstruct /\ [][NextConstruct]_vars

\* SpecFair: one task under fair scheduling.  Every step of the task's
\* thread that stays possible is taken in the end (the scheduler runs the
\* thread, bus.send comes back, the lock of the only task is free) and time
\* goes on; the caller is free to call anything or nothing.
FairTasks == {1}

FairArgs ==
    {[kind |-> "list", items |-> [i \in 1..n |-> Msg(1, 0, 0)]] :
        n \in 1..MaxLen}

InitFair == InitTasks(FairTasks, [args |-> FairArgs, durs |-> {None, Duration}])

Fairness ==
    /\ WF_vars(Tick)
    /\ \A t \in FairTasks :
        /\ WF_vars(RunWhile(t))
        /\ WF_vars(RunAcquire(t))
        /\ WF_vars(SendReturns(t))
        /\ WF_vars(RunEndCheck(t))
        /\ WF_vars(RunAdvance(t))
        /\ WF_vars(RunWake(t))
        /\ WF_vars(RunExit(t))

SpecFair == InitFair /\ [][Next]_vars /\ Fairness

\* ------------------------------------------------------------------ claims
IsValueError(e) == e[1] = "ValueError"

\* the arguments the constructor is documented to accept: one Message, or a
\* non-empty list or tuple whose elements agree with the first one
ValidArgument(raw) ==
    \/ raw.kind = "Message"
    \/ /\ raw.kind \in {"list", "tuple"}
       /\ Len(raw.items) >= 1
       /\ \A i \in 1..Len(raw.items) :
            /\ raw.items[i].arbitration_id = raw.items[1].arbitration_id
            /\ raw.items[i].channel = raw.items[1].channel

\* C1: the constructor succeeds exactly on a Message or a non-empty list or
\* tuple of Messages that share the arbitration id and the channel of the
\* first one, the task then exposes the first message's arbitration id; on
\* every other argument it raises ValueError and no task exists.
C1_ConstructionContract ==
    [][\A t \in Tasks, raw \in Args, dur \in Durs :
        Construct(t, raw, dur) =>
            IF ValidArgument(raw)
            THEN /\ pc'[t] = "while"
                 /\ raised' = NoError
                 /\ arbitration_id'[t] = raw.items[1].arbitration_id
                 /\ messages'[t] = raw.items
            ELSE /\ pc'[t] = "unconstructed"
                 /\ IsValueError(raised')
                 /\ messages'[t] = <<>>]_vars

\* a task constructed from a tuple of two different Messages
C1_Witness ==
    /\ Constructed(1)
    /\ Args = {[kind |-> "tuple", items |-> messages[1]]}
    /\ Len(messages[1]) = 2
    /\ messages[1][1] # messages[1][2]
    /\ arbitration_id[1] = messages[1][1].arbitration_id

\* C2: every stored message has the arbitration id the task exposes and the
\* channel of the messages given to the constructor.
C2_IdAndChannelFixed ==
    \A t \in Tasks : Constructed(t) => \A i \in 1..Len(messages[t]) :
        /\ messages[t][i].arbitration_id = arbitration_id[t]
        /\ messages[t][i].channel = origChannel[t]

\* the argument is a sequence (or one Message) of another length than the
\* stored tuple
LengthDiffers(t, raw) ==
    /\ Constructed(t)
    /\ raw.kind # "other"
    /\ Len(raw.items) # Len(messages[t])

\* C3: modify_data with a sequence of another length than the stored one
\* raises ValueError and changes nothing of the task: not the stored tuple,
\* the stopped flag, the end time, the thread's position and locals, nor
\* the message being sent.  (Every step either raises ValueError and leaves
\* all of that unchanged, or is no such call.)
C3_LengthMismatchRejected ==
    [][\A t \in Tasks :
        \/ /\ IsValueError(raised')
           /\ UNCHANGED <<messages, arbitration_id, duration, end_time,
                          stopped, pc, msg_index, started, delay, inFlight,
                          send_lock>>
        \/ \A raw \in Args :
                ~(LengthDiffers(t, raw) /\ ModifyData(t, raw))]_vars

\* the length test of modify_data has rejected a call during a send of a
\* task of two messages
C3_Witness ==
    /\ raised = ValueError("number")
    /\ Len(messages[1]) = 2
    /\ pc[1] = "send"

\* C4: a send that begins after modify_data has returned transmits the
\* element of the new sequence at the loop's position; every message being
\* sent is one whole Message (of the sequence stored when the send began).
C4_SendsUseNewSequence ==
    \A t \in Tasks : pc[t] = "send" =>
        /\ inFlight[t] \in Message
        /\ ~stale[t] => inFlight[t] = given[t][msg_index[t] + 1]

\* a send of the second message of a sequence that modify_data has stored
\* (it has another arbitration id than the constructor's messages)
C4_Witness ==
    /\ pc[1] = "send"
    /\ ~stale[1]
    /\ msg_index[1] = 1
    /\ inFlight[1].arbitration_id # arbitration_id[1]

\* C5: when the thread leaves the loop because the send raised or because
\* end_time has passed, the stopped flag is true.
C5_StoppedAfterLeaving ==
    [][\A t \in Tasks :
        (pc[t] \in {"send", "endcheck"} /\ pc'[t] = "exit") => stopped'[t]]_vars

\* C6: start() on a stopped task with a duration sets end_time to the time
\* of the call plus the duration (the whole duration is left again).
C6_StartRearmsDuration ==
    [][\A t \in Tasks :
        (stopped[t] /\ duration[t] # None /\ Start(t)) =>
            end_time'[t] = duration[t]]_vars

\* C7: no message is sent in an iteration that began when end_time had
\* passed.
C7_NoSendAfterEndTime ==
    \A t \in Tasks : pc[t] = "send" => ~lateIter[t]

\* C8: at most one of the tasks that share the lock is inside bus.send.
C8_OneSendAtATime ==
    Cardinality({t \in Tasks : pc[t] = "send"}) <= 1

\* one task is inside bus.send while another waits for the lock
C8_Witness ==
    /\ pc[1] = "send"
    /\ pc[2] = "lock"

\* the position after p in the stored sequence of t
NextPos(t, p) == (p + 1) % Len(messages[t])

\* C9 as claimed: over the lifetime of the task the first send uses
\* position 0 and every later send the position after the previous send's.
C9_OrderOverLifetime ==
    [][\A t \in Tasks :
        (pc[t] = "lock" /\ pc'[t] = "send") =>
            lastPos'[t] = IF lastPos[t] = -1 THEN 0
                          ELSE NextPos(t, lastPos[t])]_vars

\* C9 amended: the first send of every thread uses position 0 and every
\* later send of the same thread the position after its previous send's.
C9_OrderWithinThread ==
    [][\A t \in Tasks :
        (pc[t] = "lock" /\ pc'[t] = "send") =>
            lastPos'[t] = IF fresh[t] THEN 0
                          ELSE NextPos(t, lastPos[t])]_vars

\* the second message of a sequence of two is being sent
C9_Witness ==
    /\ pc[1] = "send"
    /\ Len(messages[1]) = 2
    /\ lastPos[1] = 1

\* C10: a thread whose send has raised sends nothing more (it is leaving
\* or has left _run), and the caller's calls raise nothing but ValueError.
C10_FailureFatalAndSilent ==
    /\ \A t \in Tasks : failed[t] => pc[t] \in {"exit", "dead"}
    /\ raised = NoError \/ IsValueError(raised)

\* a send has raised, the thread is gone and the task is not stopped
C10_Witness ==
    /\ failed[1]
    /\ pc[1] = "dead"
    /\ ~stopped[1]

\* C11: a task that stays not stopped, whose sends do not fail and whose
\* end_time has not passed, sends again and again: start() has brought it
\* back to sending, whenever it was called.
C11_ResumesSending ==
    \A t \in FairTasks :
        <>[](Constructed(t) /\ ~stopped[t] /\ ~failed[t] /\ ~Expired(t))
            => []<>(pc[t] = "send")

C13_StartIdempotent ==
    [][\A t \in Tasks : Start(t) =>
        /\ (~stopped[t] /\ is_alive(t)) =>
                UNCHANGED <<messages, arbitration_id, duration, end_time,
                            stopped, pc, threads, msg_index, started, delay,
                            inFlight, send_lock>>
        /\ threads'[t] = IF is_alive(t) THEN threads[t]
                         ELSE threads[t] + 1]_vars

\* start() has spawned a thread for a task that had sent before: the new
\* thread has not sent yet
C13_Witness ==
    /\ pc[1] = "while"
    /\ fresh[1]
    /\ lastPos[1] # -1
    /\ ~stopped[1]

\* C14: the shared lock is held exactly by the task that is inside
\* bus.send: never during the sleep, never after a send has raised, never
\* by a thread that has left the loop.
C14_LockOnlyWhileSending ==
    \A t \in Tasks : send_lock = t <=> pc[t] = "send"

\* the send of the first task has raised and the second task is sending
C14_Witness ==
    /\ failed[1]
    /\ pc[1] \in {"exit", "dead"}
    /\ pc[2] = "send"
    /\ send_lock = 2

\* C15: while the task is stopped its thread begins no new iteration, so
\* the only send after stop() is the one of an iteration that had passed
\* the loop test; and if the task stays stopped the thread ends.
C15_StopTakesEffect ==
    /\ [][\A t \in Tasks :
            (stopped[t] /\ stopped'[t] /\ pc'[t] = "lock")
                => pc[t] = "lock"]_vars
    /\ \A t \in FairTasks : <>[]stopped[t] => <>[](~is_alive(t))

\* the thread has ended because of stop(): no send has raised and the task
\* has no duration
C15_Witness ==
    /\ stopped[1]
    /\ pc[1] = "dead"
    /\ ~failed[1]
    /\ duration[1] = None
    /\ lastPos[1] # -1

\* C16: a task never has more than one live thread.
C16_OneThreadPerTask ==
    \A t \in Tasks : threads[t] <= 1

\* start() has been called after stop() while the thread was leaving the
\* loop: still one thread
C16_Witness ==
    /\ pc[1] = "exit"
    /\ ~stopped[1]
    /\ ~failed[1]
    /\ duration[1] = None
    /\ threads[1] = 1

\* C17 as claimed: the time stamp is taken before the lock is acquired, so
\* when time has passed while the thread waited for the lock, that time is
\* part of the elapsed time at the moment the send begins.
C17_WaitIsCompensated ==
    [][\A t \in Tasks :
        (pc[t] = "lock" /\ pc'[t] = "send" /\ waited[t]) =>
            started'[t] >= 1]_vars

\* C17 amended: the time stamp is taken when the lock has been acquired:
\* at the moment the send begins the elapsed time is 0, whatever time the
\* thread has waited for the lock.
C17_StampAfterLock ==
    [][\A t \in Tasks :
        (pc[t] = "lock" /\ pc'[t] = "send") => started'[t] = 0]_vars

\* a send begins after the thread has waited for the lock while time passed
C17_Witness ==
    /\ pc[1] = "send"
    /\ waited[1]
    /\ started[1] = 0

\* C18: the sleep of an iteration is max(0, period - elapsed): not negative,
\* 0 when the elapsed time is at least the period, at most the period.
C18_PacingSleep ==
    [][\A t \in Tasks :
        (pc[t] = "advance" /\ pc'[t] = "sleep") =>
            /\ delay'[t] = Max(0, Period - started[t])
            /\ delay'[t] >= 0
            /\ delay'[t] <= Period
            /\ started[t] >= Period => delay'[t] = 0]_vars

\* the thread begins a sleep of a whole period
C18_Witness ==
    /\ pc[1] = "sleep"
    /\ delay[1] = Period

\* C19: a modify_data call that raises nothing changes the stored sequence
\* and nothing else: not the stopped flag, the duration, end_time, the
\* exposed arbitration id, the thread's position and schedule, nor the
\* number of threads.
C19_ModifyChangesOnlyMessages ==
    [][\A t \in Tasks :
        \/ UNCHANGED <<arbitration_id, duration, end_time, stopped, pc,
                       threads, msg_index, started, delay, send_lock>>
        \/ \A raw \in Args :
                ~(ModifyData(t, raw) /\ raised' = NoError)]_vars

\* modify_data has stored messages of another arbitration id in a stopped
\* task whose thread has ended
C19_Witness ==
    /\ stopped[1]
    /\ pc[1] = "dead"
    /\ messages[1][1].arbitration_id # arbitration_id[1]

\* C20: the stored sequence of a task is never empty, the index of the
\* thread is a valid position of it, and its length never changes.
C20_IndexValid ==
    /\ [](\A t \in Tasks : Constructed(t) =>
            /\ Len(messages[t]) >= 1
            /\ msg_index[t] \in 0..(Len(messages[t]) - 1))
    /\ [][\A t \in Tasks : Constructed(t) =>
            Len(messages'[t]) = Len(messages[t])]_vars

\* the thread is about to send the second message of a sequence that
\* modify_data has stored
C20_Witness ==
    /\ pc[1] = "lock"
    /\ msg_index[1] = 1
    /\ messages[1][2].arbitration_id # arbitration_id[1]

TypeOK ==
    /\ \A t \in Tasks : pc[t] \in {"unconstructed", "while", "lock",
            "send", "endcheck", "advance", "sleep", "exit", "dead"}
    /\ send_lock \in {0} \cup Tasks
    /\ \A t \in Tasks : started[t] \in 0..MaxTime /\ delay[t] \in 0..Period
====
